---- MODULE Spec2Model ----
(***************************************************************************)
(* A model of implicit-arap's deformation training step                    *)
(* (iarap/train/deform_trainer.py) and of the level-set projector of the   *)
(* renderer (iarap/render/sdf_renderer.py).                                *)
(*                                                                         *)
(* Tensors are modelled by their shape and by the provenance of their      *)
(* entries: a scalar read from a file is the cell <<group, file, row,      *)
(* column>>, a row is a record [cells, proj] (proj counts the projection   *)
(* rounds applied to the point), and a 2-D tensor is [rows, w] (w is the   *)
(* size of the last dimension, kept apart because a tensor of 0 rows still *)
(* has a width).                                                           *)
(***************************************************************************)
EXTENDS Integers, Sequences, FiniteSets, TLC

\* ------------------------------------------------------------------ bounds
MaxFiles == 2
MaxProj == 2
MaxZero == 3
MaxSpace == 1
MaxSteps == 2
PatchVerts == 2
MaxCoord == 2
MaxLevel == 1
MaxRadius == 1
MaxIts == 2

\* ------------------------------------------------------- program constants
PointDim == 3
EmptyMovingWidth == 6

\* Rows of a point-set or transform file: one row (np.loadtxt gives a 1-D
\* array) or several (a 2-D array).
RowChoices == {1, 2}
\* Values per transform row: 3 (what the code is written for) or the 6 the
\* specification names.
TransformWidths == {3, 6}

Max(a, b) == IF a >= b THEN a ELSE b
Min(a, b) == IF a <= b THEN a ELSE b

\* ------------------------------------------------------------------ numpy
\* nd = 0 marks an operation that raised.
Raised == [nd |-> 0, d |-> <<>>, w |-> 0]

FileRow(g, f, r, width) == [c \in 1..width |-> <<g, f, r, c>>]

\* np.loadtxt: a file of one row loads as a 1-D array, of several rows as 2-D.
LoadTxt(g, f, nrows, width) ==
    IF nrows = 1
    THEN [nd |-> 1, d |-> FileRow(g, f, 1, width), w |-> width]
    ELSE [nd |-> 2, d |-> [r \in 1..nrows |-> FileRow(g, f, r, width)], w |-> width]

RECURSIVE Flatten(_)
Flatten(ss) == IF ss = <<>> THEN <<>> ELSE Head(ss) \o Flatten(Tail(ss))

\* np.concatenate(arrs, axis=0) on a non-empty list: every array must have the
\* same number of dimensions, and 2-D arrays the same number of columns.
NpConcatenate(arrs) ==
    IF \A i \in 1..Len(arrs) : arrs[i].nd = 1
    THEN LET d == Flatten([i \in 1..Len(arrs) |-> arrs[i].d])
         IN [nd |-> 1, d |-> d, w |-> Len(d)]
    ELSE IF \A i \in 1..Len(arrs) : arrs[i].nd = 2 /\ arrs[i].w = arrs[1].w
    THEN [nd |-> 2, d |-> Flatten([i \in 1..Len(arrs) |-> arrs[i].d]), w |-> arrs[1].w]
    ELSE Raised

\* np.expand_dims(a, 0)
ExpandDims(a) ==
    IF a.nd = 1 THEN [nd |-> 2, d |-> <<a.d>>, w |-> a.w]
    ELSE [nd |-> a.nd + 1, d |-> <<a.d>>, w |-> a.w]

\* ------------------------------------------------------------------ torch
NoTensor == [rows |-> <<>>, w |-> 0 - 1]
IsTensor(t) == t.w >= 0
NRows(t) == Len(t.rows)

\* torch.from_numpy of a 2-D array
FromNumpy(a) == [rows |-> [r \in 1..Len(a.d) |-> [cells |-> a.d[r], proj |-> 0]], w |-> a.w]

EmptyTensor(width) == [rows |-> <<>>, w |-> width]

\* torch.cat(.., dim=0) of 2-D tensors: the widths must agree (only a 1-D empty
\* tensor is exempt, and none occurs here).
TorchCat0(a, b) ==
    IF a.w = b.w THEN [rows |-> a.rows \o b.rows, w |-> a.w] ELSE NoTensor

\* torch.cat([a, b], dim=-1): same number of dimensions and of rows.
TorchCatLast(a, b) ==
    IF a.nd = 2 /\ b.nd = 2 /\ Len(a.d) = Len(b.d)
    THEN [rows |-> [r \in 1..Len(a.d) |-> [cells |-> a.d[r] \o b.d[r], proj |-> 0]],
          w |-> a.w + b.w]
    ELSE NoTensor

\* t[:, lo-1:hi] (columns lo..hi, 1-based, clipped to the width)
SliceCols(t, lo, hi) ==
    LET h == Min(hi, t.w)
    IN [rows |-> [r \in 1..NRows(t) |->
                     [cells |-> SubSeq(t.rows[r].cells, lo, h), proj |-> t.rows[r].proj]],
        w |-> Max(h - lo + 1, 0)]

\* t[lo-1:, :] (rows lo.., 1-based)
SliceRowsFrom(t, lo) == [rows |-> SubSeq(t.rows, lo, NRows(t)), w |-> t.w]

\* ------------------------------------------------- the handle specification
Absent == [present |-> FALSE, positions |-> <<>>, transform |-> <<>>, tw |-> PointDim]
FileLists == UNION {[1..k -> RowChoices] : k \in 0..MaxFiles}
StaticSpecs ==
    {Absent} \cup {[present |-> TRUE, positions |-> p, transform |-> <<>>, tw |-> PointDim] :
                     p \in FileLists}
MovingSpecs ==
    {Absent} \cup {[present |-> TRUE, positions |-> p, transform |-> t, tw |-> tw] :
                     p \in FileLists, t \in FileLists, tw \in TransformWidths}
HandleSpecs ==
    {[hasHandles |-> FALSE, static |-> Absent, moving |-> Absent]}
    \cup {[hasHandles |-> TRUE, static |-> s, moving |-> m] : s \in StaticSpecs, m \in MovingSpecs}

Sum(s) == LET RECURSIVE S(_) S(i) == IF i = 0 THEN 0 ELSE s[i] + S(i - 1) IN S(Len(s))

\* ------------------------------------------------ the frozen shape network
\* NeuralSDF.distance: the signed distance at a point, a function of the point
\* and of the network's parameters (three values: inside, on, outside).
Dist(params, p) ==
    IF params = "pretrained"
    THEN ((p.cells[1][2] + p.cells[1][3] + p.proj) % 3) - 1
    ELSE 0

\* NeuralSDF.project_nearest: one projection round on every row.
ProjectNearest(t) ==
    [rows |-> [r \in 1..NRows(t) |-> [cells |-> t.rows[r].cells, proj |-> t.rows[r].proj + 1]],
     w |-> t.w]

RECURSIVE ProjectRounds(_, _)
ProjectRounds(t, n) == IF n = 0 THEN t ELSE ProjectRounds(ProjectNearest(t), n - 1)

\* NeuralSDF.sample_zero_level_set(n, ...): rejection sampling that found
\* `got` near-surface candidates within its attempt budget. Exactly n points,
\* each projected num_projections times, or the insufficient-samples failure.
\* A request for no point, or for fewer than none, is met by no point.
SampleZeroLevelSet(n, got, nproj, stamp) ==
    IF got >= n
    THEN [err |-> "none",
          pts |-> [rows |-> [k \in 1..Max(n, 0) |->
                               [cells |-> FileRow("z", stamp, k, PointDim), proj |-> nproj]],
                   w |-> PointDim]]
    ELSE [err |-> "InsufficientSamples", pts |-> NoTensor]

\* NeuralSDF.project_level_sets(verts, levels): one round moving every vertex
\* of patch i toward the level set at offset levels[i].
ProjectLevelSets(verts, levels) ==
    [i \in 1..Len(verts) |->
        [j \in 1..Len(verts[i]) |->
            [origin |-> verts[i][j].origin, vert |-> verts[i][j].vert,
             targets |-> Append(verts[i][j].targets, levels[i])]]]

\* The parameters an output of the shape network is differentiable in.
SourceGraph(net) == IF net.requires_grad THEN {"source"} ELSE {}

\* Tensor.detach(): the result is cut from the autograd graph.
Detach(graph) == {}

\* iarap.utils.detach_model: no parameter of the network tracks gradients.
DetachModel(net) == [net EXCEPT !.requires_grad = FALSE]

\* ------------------------------------------- the renderer's projector
\* A point or vector of PointDim coordinates; nan marks a NaN result.
Vec(c) == [nan |-> FALSE, c |-> c]
NaNVec == [nan |-> TRUE, c |-> [k \in 1..PointDim |-> 0]]
Scalar(v) == [nan |-> FALSE, v |-> v]
NaNScalar == [nan |-> TRUE, v |-> 0]

Abs(x) == IF x < 0 THEN 0 - x ELSE x
Sgn(x) == IF x < 0 THEN 0 - 1 ELSE IF x > 0 THEN 1 ELSE 0

\* The shape model of the renderer: the distance to a slab of half-width r
\* across one axis, scaled by s (a network's gradient need not have length 1).
\* Its gradient vanishes on the slab's mid-plane.
GradScales == {1, 2}
ShapeFields == [axis : 1..PointDim, r : 0..MaxRadius, s : GradScales]
DefaultField == [axis |-> 1, r |-> 0, s |-> 1]

\* sdf_functional, lines 77-82, with no deformation model loaded
SdfFunctional(field, q) ==
    IF q.nan THEN NaNScalar ELSE Scalar(field.s * (Abs(q.c[field.axis]) - field.r))

\* iarap.utils.gradient: the derivative of the distance in the query
Gradient(field, q) ==
    IF q.nan THEN NaNVec
    ELSE Vec([k \in 1..PointDim |-> IF k = field.axis THEN field.s * Sgn(q.c[k]) ELSE 0])

ISqrt(n) == CHOOSE k \in 0..n : k * k <= n /\ n < (k + 1) * (k + 1)
SumSq(c) == LET RECURSIVE S(_) S(i) == IF i = 0 THEN 0 ELSE c[i] * c[i] + S(i - 1) IN S(Len(c))
\* The Euclidean length
Norm(g) == ISqrt(SumSq(g.c))

\* Mutant of FNormalize: the vector is divided by its length, unclamped, and
\* 0/0 is NaN.
FNormalizeUnclamped(g) ==
    IF g.nan \/ Norm(g) = 0 THEN NaNVec
    ELSE Vec([k \in 1..PointDim |-> g.c[k] \div Norm(g)])

\* F.normalize(g, dim=-1): g / max(|g|, eps), eps = 1e-12. A length of 0 is
\* clamped to eps, and the zero vector divided by eps is the zero vector.
FNormalize(g) ==
    IF g.nan THEN NaNVec
    ELSE LET n == Norm(g)
         IN Vec([k \in 1..PointDim |-> IF n = 0 THEN 0 ELSE g.c[k] \div n])

\* project_nearest, lines 87-89: one round
ProjectOnce(field, q, level) ==
    LET f == SdfFunctional(field, q)
        dist == IF f.nan THEN NaNScalar ELSE Scalar(f.v - level)
        grad == FNormalize(Gradient(field, q))
    IN IF q.nan \/ dist.nan \/ grad.nan THEN NaNVec
       ELSE Vec([k \in 1..PointDim |-> q.c[k] - dist.v * grad.c[k]])

ZeroGradient(field, q) == ~q.nan /\ Norm(Gradient(field, q)) = 0

Origin == Vec([k \in 1..PointDim |-> 0])
NoProjection(field) ==
    [pc |-> "idle", field |-> field, query |-> Origin, level |-> 0, n_its |-> 0, i |-> 0,
     prev |-> Origin, zeroStep |-> FALSE, zero |-> [met |-> FALSE, at |-> Origin]]

\* ------------------------------------------------- the renderer's viewer
MaxLive == 1
MaxFrozen == 2
MaxOffset == 1

\* run, line 122: the rounds of a pick's projection
ClickIts == 10
\* run, lines 105-106: tx, ty, tz, rx, ry, rz
NumInputs == 6
\* The input the user edits: rx.
EditedInputs == {4}

\* project_nearest, lines 84-90: the whole call
RECURSIVE ProjectNearestFn(_, _, _, _)
ProjectNearestFn(field, q, n, level) ==
    IF n = 0 THEN q
    ELSE CHOOSE out \in {ProjectNearestFn(field, next, n - 1, level) :
                            next \in {ProjectOnce(field, q, level)}} : TRUE

\* run, line 121: the click hit something inside the unit cube
InsideUnitCube(q) == ~q.nan /\ \A k \in 1..PointDim : Abs(q.c[k]) <= 1

\* run, line 222: the six inputs at 0
ZeroInputs == [k \in 1..NumInputs |-> 0]

\* run, lines 201-206: the rigid transform the six inputs give, the rotation
\* by the Euler angles rx, ry, rz followed by the translation tx, ty, tz.
Transform(inputs) ==
    [translate |-> SubSeq(inputs, 1, PointDim),
     euler |-> SubSeq(inputs, PointDim + 1, NumInputs)]
\* np.eye(4): no rotation, no translation
Identity == Transform(ZeroInputs)

\* A pick is a numpy array: shape <<3>> for a point, <<>> for a scalar. `at`
\* holds its values, `level` the level a clicked pick was projected onto.
\* run, lines 122-124
ClickPick(hit, level) ==
    [shape |-> <<PointDim>>, by |-> "click", level |-> level,
     at |-> [k \in 1..PointDim |-> <<"c", hit.c[k]>>]]

\* run, lines 217-218: a live pick under the live cloud's transform
FrozenPick(p, xf) ==
    [shape |-> <<PointDim>>, by |-> "freeze",
     at |-> IF xf = Identity THEN p.at ELSE [k \in 1..PointDim |-> <<"T", xf, p.at[k]>>]]

\* The selection files offered to 'Load points': a path that cannot be read,
\* and files of one or several points.
NoFile == [ok |-> FALSE, d |-> <<>>]
SelectionFiles ==
    {NoFile} \cup {[ok |-> TRUE, d |-> [r \in 1..n |-> FileRow("l", n, r, PointDim)]] :
                     n \in RowChoices}

\* run, lines 178-179: np.loadtxt squeezes a file of one row to a 1-D array;
\* np.split cuts the array along its first axis into shape[0] pieces, and
\* squeeze drops the axis: a 2-D array gives its rows, a 1-D array scalars.
LoadedPicks(file) ==
    IF ~file.ok \/ Len(file.d) = 0 \/ (Len(file.d) = 1 /\ Len(file.d[1]) = 1)
    THEN [err |-> TRUE, picks |-> <<>>]
    ELSE IF Len(file.d) = 1
    THEN [err |-> FALSE,
          picks |-> [c \in 1..Len(file.d[1]) |->
                        [shape |-> <<>>, by |-> "load", level |-> 0, at |-> <<file.d[1][c]>>]]]
    ELSE IF Len(file.d[1]) = 1
    THEN [err |-> FALSE,
          picks |-> [r \in 1..Len(file.d) |->
                        [shape |-> <<>>, by |-> "load", level |-> 0, at |-> file.d[r]]]]
    ELSE [err |-> FALSE,
          picks |-> [r \in 1..Len(file.d) |->
                        [shape |-> <<Len(file.d[r])>>, by |-> "load", level |-> 0,
                         at |-> file.d[r]]]]

\* np.stack(picks, axis=0): a non-empty list of arrays of one shape
Stackable(picks) == picks # <<>> /\ \A k \in 1..Len(picks) : picks[k].shape = picks[1].shape
StackShape(picks) == <<Len(picks)>> \o picks[1].shape

\* ps.register_point_cloud(name, np.stack(picks)): the stack must succeed and
\* the positions be N x 3 (or N x 2).
Registers(picks) ==
    /\ Stackable(picks)
    /\ Len(StackShape(picks)) = 2
    /\ StackShape(picks)[2] \in {2, PointDim}

\* run, lines 215-217: np.stack, np.concatenate with a column of ones and
\* np.dot with the 4 x 3 transform need N x 3 positions.
Transformable(picks) ==
    /\ Stackable(picks)
    /\ StackShape(picks) = <<Len(picks), PointDim>>

\* run, lines 98-108: the viewer as run() sets it up. clouds tells which point
\* clouds are registered, live_xf is the transform polyscope holds for 'Live
\* Picks' (kept by name across registrations), mesh the level of the surface
\* mesh on display, disk the shape of the array in the output file.
NoViewer ==
    [pc |-> "run", err |-> "none",
     live_picks |-> <<>>, frozen_picks |-> <<>>,
     clouds |-> [live |-> FALSE, frozen |-> FALSE],
     live_xf |-> Identity,
     mesh |-> 0,
     viewed_level_set |-> 0, last_level_set |-> 0,
     inputs |-> ZeroInputs,
     duplicate |-> FALSE, clear_only_frozen |-> TRUE,
     disk |-> <<>>]

VARIABLES
    spec,            \* the handle specification file (yaml) and its point files
    config,          \* DeformTrainerConfig
    pc,              \* where the run is
    err,             \* the exception that ended the run, "none" while it runs
    handles_static,  \* self.handles_static
    handles_moving,  \* self.handles_moving
    source,          \* self.source, the shape network
    model,           \* self.model, the deformation network
    step,            \* training steps completed
    trace,           \* the phases the current step has entered, in order
    loc,             \* the locals of train_step
    atStepStart,     \* the handle tables as the current step found them
    proj,            \* SDFRenderer: its shape model and the project_nearest call in flight
    ui               \* SDFRenderer.run: the locals of the viewer and its point clouds

vars == <<spec, config, pc, err, handles_static, handles_moving, source, model,
          step, trace, loc, atStepStart, proj, ui>>
trainerVars == <<spec, config, pc, err, handles_static, handles_moving, source, model,
                 step, trace, loc, atStepStart>>

NoLocals ==
    [handles |-> NoTensor, handle_values |-> NoTensor, surf_sample |-> NoTensor,
     samples |-> NoTensor, sample_dist |-> <<>>, level_set_verts |-> <<>>,
     verts_graph |-> {},
     rtf_out |-> [n |-> 0, m |-> 0, graph |-> {}],
     moving_idx |-> <<>>, static_idx |-> <<>>,
     loss_dict |-> [graph |-> {}, made |-> 0 - 1,
                    from |-> [h |-> 0 - 1, s |-> 0 - 1, p |-> 0 - 1, f |-> 0 - 1]],
     made |-> [h |-> 0 - 1, s |-> 0 - 1, p |-> 0 - 1, f |-> 0 - 1]]

PhaseOrder == <<"SamplingHandles", "SamplingSurface", "BuildingPatches", "Forward", "LossCompute">>

\* setup_data, lines 50-57: the static handle table.
LoadStatic(s) ==
    IF s.present /\ Len(s.positions) > 0
    THEN LET static == NpConcatenate([f \in 1..Len(s.positions) |->
                                         LoadTxt("s", f, s.positions[f], PointDim)])
         IN IF static.nd = 0 THEN NoTensor
            ELSE IF static.nd < 2 THEN FromNumpy(ExpandDims(static))
            ELSE FromNumpy(static)
    ELSE EmptyTensor(PointDim)

\* setup_data, lines 61-70: the moving handle table, positions and transforms
\* side by side.
LoadMoving(m) ==
    LET moving == NpConcatenate([f \in 1..Len(m.positions) |->
                                    LoadTxt("m", f, m.positions[f], PointDim)])
        transforms == NpConcatenate([f \in 1..Len(m.transform) |->
                                        LoadTxt("t", f, m.transform[f], m.tw)])
    IN IF moving.nd = 0 \/ transforms.nd = 0 THEN NoTensor
       ELSE IF moving.nd < 2
       THEN TorchCatLast(ExpandDims(moving), ExpandDims(transforms))
       ELSE TorchCatLast(moving, transforms)

\* setup_data, lines 63-70: np.concatenate raises ValueError, torch.cat
\* RuntimeError.
LoadMovingError(m) ==
    IF \/ NpConcatenate([f \in 1..Len(m.positions) |->
                            LoadTxt("m", f, m.positions[f], PointDim)]).nd = 0
       \/ NpConcatenate([f \in 1..Len(m.transform) |->
                            LoadTxt("t", f, m.transform[f], m.tw)]).nd = 0
    THEN "ValueError" ELSE "RuntimeError"

Init ==
    /\ spec \in HandleSpecs
    /\ config \in [num_projections : 0..MaxProj, zero_samples : 0..MaxZero,
                   space_samples : 0..MaxSpace, num_steps : {MaxSteps}]
    /\ pc = "Start"
    /\ err = "none"
    /\ handles_static = NoTensor
    /\ handles_moving = NoTensor
    /\ source = [params |-> "none", requires_grad |-> FALSE]
    /\ model = [params |-> 0, requires_grad |-> FALSE, sdf_callable |-> "none"]
    /\ step = 0
    /\ trace = <<>>
    /\ loc = NoLocals
    /\ atStepStart = <<NoTensor, NoTensor>>
    /\ proj = NoProjection(DefaultField)
    /\ ui = NoViewer

\* DeformTrainer.setup_data
SetupData ==
    /\ pc = "Start"
    /\ UNCHANGED <<ui, proj, spec, config, source, model, step, trace, loc, atStepStart>>
    /\ IF ~spec.hasHandles
       THEN /\ pc' = "Raised" /\ err' = "AssertionError"
            /\ UNCHANGED <<handles_static, handles_moving>>
       ELSE LET st == LoadStatic(spec.static)
                m == spec.moving
                guard == m.present /\ Len(m.positions) > 0
                mv == IF guard THEN LoadMoving(m) ELSE EmptyTensor(EmptyMovingWidth)
            IN IF ~IsTensor(st)
               THEN /\ pc' = "Raised" /\ err' = "ValueError"
                    /\ UNCHANGED <<handles_static, handles_moving>>
               ELSE IF guard /\ Len(m.positions) # Len(m.transform)
               THEN /\ pc' = "Raised" /\ err' = "AssertionError"
                    /\ handles_static' = st
                    /\ UNCHANGED handles_moving
               ELSE IF ~IsTensor(mv)
               THEN /\ pc' = "Raised" /\ err' = LoadMovingError(m)
                    /\ handles_static' = st
                    /\ UNCHANGED handles_moving
               ELSE /\ pc' = "Data" /\ err' = "none"
                    /\ handles_static' = st
                    /\ handles_moving' = mv

\* Mutant of SetupModel: the shape network is loaded but not detached.
SetupModelNoDetach ==
    /\ pc = "Data"
    /\ source' = [params |-> "pretrained", requires_grad |-> TRUE]
    /\ model' = [params |-> 0, requires_grad |-> TRUE, sdf_callable |-> "source.distance"]
    /\ pc' = "Idle"
    /\ UNCHANGED <<ui, proj, spec, config, err, handles_static, handles_moving, step, trace, loc,
                   atStepStart>>

\* DeformTrainer.setup_model
SetupModel ==
    /\ pc = "Data"
    /\ source' = DetachModel([params |-> "pretrained", requires_grad |-> TRUE])
    /\ model' = [params |-> 0, requires_grad |-> TRUE, sdf_callable |-> "source.distance"]
    /\ pc' = "Idle"
    /\ UNCHANGED <<ui, proj, spec, config, err, handles_static, handles_moving, step, trace, loc,
                   atStepStart>>

\* An exception leaves train_step: nothing catches it, the run is over.
Abort(phase, kind) ==
    /\ pc' = "Raised"
    /\ err' = kind
    /\ trace' = Append(trace, phase)

\* train_step, line 88: the handle positions, moving first.
HandlePositions == TorchCat0(SliceCols(handles_moving, 1, PointDim), handles_static)

\* train_step, lines 91-93: the handle targets, one row per handle.
HandleValues(handles) ==
    TorchCat0(SliceCols(handles_moving, PointDim + 1, handles_moving.w),
              SliceRowsFrom(handles, NRows(handles_moving) + 1))

\* Mutant of SamplingHandles: the projected positions are written back into
\* the moving handle table.
SamplingHandlesInPlace ==
    /\ pc = "Idle"
    /\ step < config.num_steps
    /\ atStepStart' = <<handles_moving, handles_static>>
    /\ UNCHANGED <<ui, proj, spec, config, handles_static, source, model, step>>
    /\ LET cat == HandlePositions
           handles == ProjectRounds(cat, config.num_projections)
           values == HandleValues(handles)
       IN /\ handles_moving' =
                IF IsTensor(cat)
                THEN [handles_moving EXCEPT !.rows =
                        [r \in 1..NRows(handles_moving) |->
                            [handles_moving.rows[r] EXCEPT !.proj = config.num_projections]]]
                ELSE handles_moving
          /\ IF ~IsTensor(cat) \/ ~IsTensor(values)
             THEN /\ Abort("SamplingHandles", "RuntimeError")
                  /\ loc' = IF IsTensor(cat) THEN [loc EXCEPT !.handles = handles] ELSE loc
             ELSE /\ loc' = [loc EXCEPT !.handles = handles, !.handle_values = values,
                                        !.made.h = step]
                  /\ pc' = "SamplingHandles"
                  /\ trace' = <<"SamplingHandles">>
                  /\ err' = "none"

\* train_step, lines 88-93 (SamplingHandles)
SamplingHandles ==
    /\ pc = "Idle"
    /\ step < config.num_steps
    /\ atStepStart' = <<handles_moving, handles_static>>
    /\ UNCHANGED <<ui, proj, spec, config, handles_static, handles_moving, source, model, step>>
    /\ LET cat == HandlePositions
           handles == ProjectRounds(cat, config.num_projections)
           values == HandleValues(handles)
       IN IF ~IsTensor(cat) \/ ~IsTensor(values)
          THEN /\ Abort("SamplingHandles", "RuntimeError")
               /\ loc' = IF IsTensor(cat) THEN [loc EXCEPT !.handles = handles] ELSE loc
          ELSE /\ loc' = [loc EXCEPT !.handles = handles, !.handle_values = values,
                                     !.made.h = step]
               /\ pc' = "SamplingHandles"
               /\ trace' = <<"SamplingHandles">>
               /\ err' = "none"

\* train_step, line 95: the sampler's failure is not caught.
Propagates(out) == out.err # "none"

\* train_step, line 100
SurfSample(handles, out) == TorchCat0(handles, out.pts)

\* sample_domain, lines 82-84
SampleDomain(nsamples, stamp) ==
    [rows |-> [k \in 1..nsamples |-> [cells |-> FileRow("u", stamp, k, PointDim), proj |-> 0]],
     w |-> PointDim]

\* Mutant of SamplingSurface: a short batch is accepted, the step goes on with
\* the points the sampler found.
SamplingSurfaceTruncating ==
    /\ pc = "SamplingHandles"
    /\ UNCHANGED <<ui, proj, spec, config, handles_static, handles_moving, source, model, step,
                   atStepStart>>
    /\ LET n == config.zero_samples - NRows(loc.handles)
       IN \E got \in 0..Max(n, 0) :
            LET out == SampleZeroLevelSet(Min(n, got), got, config.num_projections, step)
                surf == SurfSample(loc.handles, out)
            IN /\ loc' = [loc EXCEPT !.surf_sample = surf,
                                     !.samples = TorchCat0(surf,
                                         SampleDomain(config.space_samples, step)),
                                     !.made.s = step]
               /\ pc' = "SamplingSurface"
               /\ trace' = Append(trace, "SamplingSurface")
               /\ err' = "none"

\* train_step, lines 95-102 (SamplingSurface)
SamplingSurface ==
    /\ pc = "SamplingHandles"
    /\ UNCHANGED <<ui, proj, spec, config, handles_static, handles_moving, source, model, step,
                   atStepStart>>
    /\ LET n == config.zero_samples - NRows(loc.handles)
       IN \E got \in 0..Max(n, 0) :
            LET out == SampleZeroLevelSet(n, got, config.num_projections, step)
                surf == SurfSample(loc.handles, out)
            IN IF Propagates(out)
               THEN /\ Abort("SamplingSurface", out.err)
                    /\ loc' = loc
               ELSE /\ loc' = [loc EXCEPT !.surf_sample = surf,
                                          !.samples = TorchCat0(surf,
                                              SampleDomain(config.space_samples, step)),
                                          !.made.s = step]
                    /\ pc' = "SamplingSurface"
                    /\ trace' = Append(trace, "SamplingSurface")
                    /\ err' = "none"

\* Mutant of SampleDist: every patch is projected to the zero level set.
SampleDistZero(samples) == [i \in 1..NRows(samples) |-> 0]

\* train_step, lines 104-105: the level of every patch is the distance the
\* shape network measures at the patch's own sample.
SampleDist(samples) == [i \in 1..NRows(samples) |-> Dist(source.params, samples.rows[i])]

\* train_step, lines 108-116: the template lifted into every tangent plane.
TangentPts(samples) ==
    [i \in 1..NRows(samples) |->
        [j \in 1..PatchVerts |-> [origin |-> i, vert |-> j, targets |-> <<>>]]]

\* train_step, lines 117-118
RECURSIVE LevelSetVerts(_, _, _)
LevelSetVerts(verts, levels, n) ==
    IF n = 0 THEN verts ELSE LevelSetVerts(ProjectLevelSets(verts, levels), levels, n - 1)

\* train_step, lines 104-118 (BuildingPatches)
BuildingPatches ==
    /\ pc = "SamplingSurface"
    /\ LET dist == SampleDist(loc.samples)
       IN loc' = [loc EXCEPT !.sample_dist = dist,
                             !.level_set_verts = LevelSetVerts(TangentPts(loc.samples), dist,
                                                               config.num_projections),
                             !.verts_graph = SourceGraph(source),
                             !.made.p = step]
    /\ pc' = "BuildingPatches"
    /\ trace' = Append(trace, "BuildingPatches")
    /\ UNCHANGED <<ui, proj, spec, config, err, handles_static, handles_moving, source, model, step,
                   atStepStart>>

\* NeuralRTF.forward on detached vertices: a rotation and a translation per
\* vertex, differentiable in the deformation network's parameters only.
RtfForward(verts, graph) ==
    [n |-> Len(verts), m |-> IF Len(verts) = 0 THEN 0 ELSE Len(verts[1]),
     graph |-> graph \cup (IF model.requires_grad THEN {"model"} ELSE {})]

\* Mutant of Forward: the network is evaluated without waiting for the patches.
ForwardSkipping ==
    /\ pc \in {"SamplingSurface", "BuildingPatches"}
    /\ loc' = [loc EXCEPT !.rtf_out = RtfForward(loc.level_set_verts, Detach(loc.verts_graph)),
                          !.made.f = step]
    /\ pc' = "Forward"
    /\ trace' = Append(trace, "Forward")
    /\ UNCHANGED <<ui, proj, spec, config, err, handles_static, handles_moving, source, model, step,
                   atStepStart>>

\* train_step, lines 133-135 (Forward)
Forward ==
    /\ pc = "BuildingPatches"
    /\ loc' = [loc EXCEPT !.rtf_out = RtfForward(loc.level_set_verts, Detach(loc.verts_graph)),
                          !.made.f = step]
    /\ pc' = "Forward"
    /\ trace' = Append(trace, "Forward")
    /\ UNCHANGED <<ui, proj, spec, config, err, handles_static, handles_moving, source, model, step,
                   atStepStart>>

\* train_step, lines 138-141
HandleIdx(handles) == [k \in 1..NRows(handles) |-> <<k - 1, 0>>]
\* Mutant of MovingIdx: the slice is taken with the static table's row count.
MovingIdxByStatic(handles) == SubSeq(HandleIdx(handles), 1, NRows(handles_static))

\* train_step, line 142
MovingIdx(handles) == SubSeq(HandleIdx(handles), 1, NRows(handles_moving))
\* train_step, line 143
StaticIdx(handles) == SubSeq(HandleIdx(handles), NRows(handles_moving) + 1, NRows(handles))

\* PatchARAPLoss: an index outside the rotation/translation batch is fatal.
IdxValid(idx, out) ==
    \A k \in 1..Len(idx) : idx[k][1] >= 0 /\ idx[k][1] < out.n /\ idx[k][2] >= 0 /\ idx[k][2] < out.m

\* train_step, lines 138-146 (LossCompute)
LossCompute ==
    /\ pc = "Forward"
    /\ UNCHANGED <<ui, proj, spec, config, handles_static, handles_moving, source, model, step,
                   atStepStart>>
    /\ LET mi == MovingIdx(loc.handles)
           si == StaticIdx(loc.handles)
       IN IF IdxValid(mi, loc.rtf_out) /\ IdxValid(si, loc.rtf_out)
          THEN /\ loc' = [loc EXCEPT !.moving_idx = mi, !.static_idx = si,
                                     !.loss_dict = [graph |-> Detach(loc.verts_graph)
                                                               \cup loc.rtf_out.graph,
                                                    made |-> step, from |-> loc.made]]
               /\ pc' = "LossCompute"
               /\ trace' = Append(trace, "LossCompute")
               /\ err' = "none"
          ELSE /\ Abort("LossCompute", "IndexError")
               /\ loc' = [loc EXCEPT !.moving_idx = mi, !.static_idx = si]

\* train_step, line 148, and the trainer's backward pass and optimizer step:
\* the parameters the loss is differentiable in are updated, the locals are
\* gone.
Backward ==
    /\ pc = "LossCompute"
    /\ model' = IF "model" \in loc.loss_dict.graph
                THEN [model EXCEPT !.params = model.params + 1] ELSE model
    /\ source' = IF "source" \in loc.loss_dict.graph
                 THEN [source EXCEPT !.params = "updated"] ELSE source
    /\ step' = step + 1
    /\ pc' = "Idle"
    /\ loc' = NoLocals
    /\ trace' = <<>>
    /\ UNCHANGED <<ui, proj, spec, config, err, handles_static, handles_moving, atStepStart>>

\* postprocess, lines 150-154, once the configured steps are done
Postprocess ==
    /\ pc = "Idle"
    /\ step = config.num_steps
    /\ pc' = "Finished"
    /\ UNCHANGED <<ui, proj, spec, config, err, handles_static, handles_moving, source, model, step,
                   trace, loc, atStepStart>>

\* project_nearest, line 85: the call, with its query, rounds and level
ProjectNearestCall ==
    /\ proj.pc = "idle"
    /\ \E c \in [1..PointDim -> (0 - MaxCoord)..MaxCoord], n \in 0..MaxIts,
          level \in (0 - MaxLevel)..MaxLevel :
          proj' = [NoProjection(proj.field) EXCEPT !.pc = "loop", !.query = Vec(c),
                                                   !.prev = Vec(c), !.level = level,
                                                   !.n_its = n]
    /\ UNCHANGED <<trainerVars, ui>>

\* project_nearest, lines 86-89: one round of the loop
ProjectNearestRound ==
    /\ proj.pc = "loop"
    /\ proj.i < proj.n_its
    /\ LET zg == ZeroGradient(proj.field, proj.query)
       IN proj' = [proj EXCEPT !.query = ProjectOnce(proj.field, proj.query, proj.level),
                               !.prev = proj.query,
                               !.i = proj.i + 1,
                               !.zeroStep = zg,
                               !.zero = IF zg /\ ~proj.zero.met
                                        THEN [met |-> TRUE, at |-> proj.query]
                                        ELSE proj.zero]
    /\ UNCHANGED <<trainerVars, ui>>

\* project_nearest, line 90
ProjectNearestReturn ==
    /\ proj.pc = "loop"
    /\ proj.i = proj.n_its
    /\ proj' = [proj EXCEPT !.pc = "returned"]
    /\ UNCHANGED <<trainerVars, ui>>

Next ==
    \/ SetupData
    \/ SetupModel
    \/ SamplingHandles
    \/ SamplingSurface
    \/ BuildingPatches
    \/ Forward
    \/ LossCompute
    \/ Backward
    \/ Postprocess


Spec == Init /\ [][Next]_vars

\* The renderer, set up with a shape model, projecting picked points.
InitProj ==
    /\ spec = [hasHandles |-> FALSE, static |-> Absent, moving |-> Absent]
    /\ config = [num_projections |-> 0, zero_samples |-> 0, space_samples |-> 0,
                 num_steps |-> 0]
    /\ pc = "Renderer"
    /\ err = "none"
    /\ handles_static = NoTensor
    /\ handles_moving = NoTensor
    /\ source = [params |-> "none", requires_grad |-> FALSE]
    /\ model = [params |-> 0, requires_grad |-> FALSE, sdf_callable |-> "none"]
    /\ step = 0
    /\ trace = <<>>
    /\ loc = NoLocals
    /\ atStepStart = <<NoTensor, NoTensor>>
    /\ \E field \in ShapeFields : proj = NoProjection(field)
    /\ ui = NoViewer

NextProj ==
    \/ ProjectNearestCall
    \/ ProjectNearestRound
    \/ ProjectNearestReturn

SpecProj == InitProj /\ [][NextProj]_vars

\* ------------------------------------------------ the viewer's callback
\* An exception leaves custom_callback: nothing catches it, the viewer is over.
ViewerRaise(u, call) == [u EXCEPT !.pc = "Raised", !.err = call]

\* run, lines 117-125: a ctrl-click at a position on the first axis; a
\* position outside the unit cube is ignored.
CtrlClick ==
    /\ ui.pc = "run"
    /\ Len(ui.live_picks) < MaxLive
    /\ \E x \in 0..MaxCoord :
          LET world_pos == Vec([k \in 1..PointDim |-> IF k = 1 THEN x ELSE 0])
              hit == ProjectNearestFn(proj.field, world_pos, ClickIts, ui.viewed_level_set)
              picks == Append(ui.live_picks, ClickPick(hit, ui.viewed_level_set))
          IN IF ~InsideUnitCube(world_pos)
             THEN ui' = ui
             ELSE IF Registers(picks)
             THEN ui' = [ui EXCEPT !.live_picks = picks, !.clouds.live = TRUE]
             ELSE ui' = ViewerRaise([ui EXCEPT !.live_picks = picks], "np.stack")
    /\ UNCHANGED <<trainerVars, proj>>

\* run, line 128: the level slider
SliderLevel ==
    /\ ui.pc = "run"
    /\ \E v \in (0 - MaxLevel)..MaxLevel : ui' = [ui EXCEPT !.viewed_level_set = v]
    /\ UNCHANGED <<trainerVars, proj>>

\* run, lines 130-131: 'Zero'
Zero ==
    /\ ui.pc = "run"
    /\ ui' = [ui EXCEPT !.viewed_level_set = 0]
    /\ UNCHANGED <<trainerVars, proj>>

\* run, lines 135-147: 'Render'
Render ==
    /\ ui.pc = "run"
    /\ IF ui.viewed_level_set # ui.last_level_set
       THEN ui' = [ui EXCEPT !.last_level_set = ui.viewed_level_set,
                             !.mesh = ui.viewed_level_set,
                             !.live_picks = <<>>,
                             !.frozen_picks = <<>>,
                             !.clouds = [live |-> FALSE, frozen |-> FALSE]]
       ELSE ui' = ui
    /\ UNCHANGED <<trainerVars, proj>>

\* run, lines 153-171: 'Save points' of the live or of the frozen picks; the
\* output file holds an array of the shape np.stack gives, a failure is caught
\* and reported.
SavePoints ==
    /\ ui.pc = "run"
    /\ \E points_to_export \in {"live", "frozen"} :
          LET points == IF points_to_export = "frozen" THEN ui.frozen_picks
                        ELSE ui.live_picks
          IN IF Len(points) > 0 /\ Stackable(points)
             THEN ui' = [ui EXCEPT !.disk = StackShape(points)]
             ELSE ui' = ui
    /\ UNCHANGED <<trainerVars, proj>>

\* run, lines 175-182: 'Load points'; whatever is raised is caught, after the
\* pieces of the file were added to the live picks.
LoadPoints ==
    /\ ui.pc = "run"
    /\ \E file \in SelectionFiles :
          LET loaded == LoadedPicks(file)
              picks == ui.live_picks \o loaded.picks
          IN /\ Len(ui.live_picks) <= MaxLive
             /\ IF loaded.err
                THEN ui' = ui
                ELSE IF Registers(picks)
                THEN ui' = [ui EXCEPT !.live_picks = picks, !.clouds.live = TRUE]
                ELSE ui' = [ui EXCEPT !.live_picks = picks]
    /\ UNCHANGED <<trainerVars, proj>>

\* run, lines 185-207: an edit of one of the six transform inputs; the live
\* cloud, if registered, takes the transform the inputs give.
EditTransform ==
    /\ ui.pc = "run"
    /\ \E k \in EditedInputs, v \in 0..MaxOffset :
          /\ v # ui.inputs[k]
          /\ LET inputs == [ui.inputs EXCEPT ![k] = v]
             IN ui' = [ui EXCEPT !.inputs = inputs,
                                 !.live_xf = IF ui.clouds.live THEN Transform(inputs)
                                             ELSE ui.live_xf]
    /\ UNCHANGED <<trainerVars, proj>>

\* run, line 209: 'Keep live set'
KeepLiveSet ==
    /\ ui.pc = "run"
    /\ ui' = [ui EXCEPT !.duplicate = ~ui.duplicate]
    /\ UNCHANGED <<trainerVars, proj>>

\* run, lines 213-225: 'Freeze transforms'
FreezeTransforms ==
    /\ ui.pc = "run"
    /\ Transformable(ui.live_picks) => Len(ui.frozen_picks) + Len(ui.live_picks) <= MaxFrozen
    /\ IF ~ui.clouds.live
       THEN ui' = ui
       ELSE IF ~Transformable(ui.live_picks)
       THEN ui' = ViewerRaise(ui, "np.stack")
       ELSE LET frozen == ui.frozen_picks \o
                              [k \in 1..Len(ui.live_picks) |->
                                  FrozenPick(ui.live_picks[k], ui.live_xf)]
            IN ui' = [ui EXCEPT !.frozen_picks = frozen,
                                !.clouds.frozen = TRUE,
                                !.clouds.live = ui.duplicate,
                                !.live_xf = Identity,
                                !.inputs = ZeroInputs,
                                !.live_picks = IF ui.duplicate THEN ui.live_picks ELSE <<>>]
    /\ UNCHANGED <<trainerVars, proj>>

\* run, line 227: 'Only frozen'
OnlyFrozen ==
    /\ ui.pc = "run"
    /\ ui' = [ui EXCEPT !.clear_only_frozen = ~ui.clear_only_frozen]
    /\ UNCHANGED <<trainerVars, proj>>

\* run, lines 232-236: the live half of 'Clear points'
ClearLive(u) ==
    IF Len(u.live_picks) > 0 /\ ~u.clear_only_frozen
    THEN IF u.clouds.live
         THEN [u EXCEPT !.live_picks = <<>>, !.live_xf = Identity, !.clouds.live = FALSE,
                        !.inputs = ZeroInputs]
         ELSE ViewerRaise([u EXCEPT !.live_picks = <<>>], "ps.get_point_cloud")
    ELSE u

\* run, lines 238-240: the frozen half of 'Clear points'
ClearFrozen(u) ==
    IF Len(u.frozen_picks) > 0
    THEN IF u.clouds.frozen
         THEN [u EXCEPT !.frozen_picks = <<>>, !.clouds.frozen = FALSE]
         ELSE ViewerRaise([u EXCEPT !.frozen_picks = <<>>], "ps.remove_point_cloud")
    ELSE u

\* run, lines 231-240: 'Clear points'
ClearPoints ==
    /\ ui.pc = "run"
    /\ LET u == ClearLive(ui)
       IN ui' = IF u.pc = "Raised" THEN u ELSE ClearFrozen(u)
    /\ UNCHANGED <<trainerVars, proj>>

\* The viewer, set up with a shape model and showing its zero level set.
InitViewer ==
    /\ spec = [hasHandles |-> FALSE, static |-> Absent, moving |-> Absent]
    /\ config = [num_projections |-> 0, zero_samples |-> 0, space_samples |-> 0,
                 num_steps |-> 0]
    /\ pc = "Renderer"
    /\ err = "none"
    /\ handles_static = NoTensor
    /\ handles_moving = NoTensor
    /\ source = [params |-> "none", requires_grad |-> FALSE]
    /\ model = [params |-> 0, requires_grad |-> FALSE, sdf_callable |-> "none"]
    /\ step = 0
    /\ trace = <<>>
    /\ loc = NoLocals
    /\ atStepStart = <<NoTensor, NoTensor>>
    /\ proj = NoProjection(DefaultField)
    /\ ui = NoViewer

NextViewer ==
    \/ CtrlClick
    \/ SliderLevel
    \/ Zero
    \/ Render
    \/ SavePoints
    \/ LoadPoints
    \/ EditTransform
    \/ KeepLiveSet
    \/ FreezeTransforms
    \/ OnlyFrozen
    \/ ClearPoints

SpecViewer == InitViewer /\ [][NextViewer]_vars


\* ------------------------------------------------------------------ claims
InStep == pc \in {"SamplingHandles", "SamplingSurface", "BuildingPatches", "Forward", "LossCompute"}
SurfaceSampled == pc \in {"SamplingSurface", "BuildingPatches", "Forward", "LossCompute"}

\* C1: when the zero-level-set sampler cannot supply zero_samples minus the
\* number of handles, the step ends with the insufficient-samples failure in
\* the sampling phase; a step that goes on to patch building, forward
\* evaluation or loss computation holds a surface batch of at least
\* zero_samples rows.
C1_InsufficientSamplesSurfaced ==
    /\ SurfaceSampled =>
          /\ IsTensor(loc.surf_sample)
          /\ NRows(loc.surf_sample) >= config.zero_samples
          /\ NRows(loc.handles) <= config.zero_samples =>
                NRows(loc.surf_sample) = config.zero_samples
    /\ (pc = "Raised" /\ err = "InsufficientSamples") =>
          /\ trace = <<"SamplingHandles", "SamplingSurface">>
          /\ NRows(loc.handles) < config.zero_samples
          /\ loc.surf_sample = NoTensor
          /\ loc.level_set_verts = <<>>
          /\ loc.loss_dict = NoLocals.loss_dict

C1_Witness ==
    /\ pc = "Raised"
    /\ err = "InsufficientSamples"
    /\ NRows(loc.handles) >= 1

\* C2: when the loss is computed, moving_idx is the patch rows 0..M-1 and
\* static_idx the patch rows M..M+S-1 (M, S the rows of the moving and static
\* handle tables), disjoint and together all handles; every index is inside the
\* batch the deformation network evaluated; and row k of the handle targets
\* belongs to the handle whose patch is row k.
C2_HandleIndices ==
    pc = "LossCompute" =>
        LET M == NRows(handles_moving)
            S == NRows(handles_static)
            rowsOf(idx) == {idx[k][1] : k \in 1..Len(idx)}
        IN /\ NRows(loc.handles) = M + S
           /\ loc.moving_idx = [k \in 1..M |-> <<k - 1, 0>>]
           /\ loc.static_idx = [k \in 1..S |-> <<M + k - 1, 0>>]
           /\ rowsOf(loc.moving_idx) \cap rowsOf(loc.static_idx) = {}
           /\ rowsOf(loc.moving_idx) \cup rowsOf(loc.static_idx) = 0..(M + S - 1)
           /\ loc.rtf_out.n = Len(loc.level_set_verts)
           /\ \A i \in rowsOf(loc.moving_idx) \cup rowsOf(loc.static_idx) :
                 i < loc.rtf_out.n /\ 0 < loc.rtf_out.m
           /\ NRows(loc.handle_values) = M + S
           /\ \A k \in 1..M :
                 /\ loc.samples.rows[k].cells = SubSeq(handles_moving.rows[k].cells, 1, PointDim)
                 /\ loc.handle_values.rows[k].cells =
                       SubSeq(handles_moving.rows[k].cells, PointDim + 1, handles_moving.w)
           /\ \A k \in 1..S :
                 /\ loc.samples.rows[M + k].cells = handles_static.rows[k].cells
                 /\ loc.handle_values.rows[M + k] = loc.samples.rows[M + k]
           /\ \A k \in 1..(M + S) : \A j \in 1..PatchVerts :
                 loc.level_set_verts[k][j].origin = k

C2_Witness ==
    /\ pc = "LossCompute"
    /\ NRows(handles_moving) >= 2
    /\ NRows(handles_static) >= 1
    /\ Len(loc.moving_idx) = NRows(handles_moving)
    /\ Len(loc.static_idx) = NRows(handles_static)

\* The points of a group in file order: <<file, row>> of each.
PointsOf(list) == Flatten([f \in 1..Len(list) |-> [r \in 1..list[f] |-> <<f, r>>]])

\* Every moving position file has its transform file, with a row per point.
Paired(m) ==
    /\ Len(m.positions) = Len(m.transform)
    /\ \A f \in 1..Len(m.positions) : m.positions[f] = m.transform[f]

SetupDone == pc \notin {"Start", "Raised"} \/ (pc = "Raised" /\ trace # <<>>)
HandlesBuilt == pc \in {"SamplingHandles", "SamplingSurface", "BuildingPatches", "Forward", "LossCompute"}

\* C3 (as claimed): with a well-formed handle specification whose transform
\* rows hold 6 values, setup_data stores every moving position with its own
\* transform, and every training step builds a handle-target table of one row
\* per handle, the M moving targets first, and reaches loss computation (only
\* the sampler's own failure may end a step).
C3_SixValueTransforms ==
    (spec.hasHandles /\ Paired(spec.moving) /\ spec.moving.tw = 6) =>
        LET mp == PointsOf(spec.moving.positions)
            sp == PointsOf(spec.static.positions)
        IN /\ pc = "Raised" => err = "InsufficientSamples"
           /\ SetupDone =>
                /\ NRows(handles_moving) = Len(mp)
                /\ \A k \in 1..Len(mp) :
                      handles_moving.rows[k].cells =
                          FileRow("m", mp[k][1], mp[k][2], PointDim)
                          \o FileRow("t", mp[k][1], mp[k][2], spec.moving.tw)
           /\ HandlesBuilt =>
                /\ NRows(loc.handle_values) = Len(mp) + Len(sp)
                /\ \A k \in 1..Len(mp) :
                      loc.handle_values.rows[k].cells =
                          FileRow("t", mp[k][1], mp[k][2], spec.moving.tw)
                /\ \A k \in 1..Len(sp) :
                      loc.handle_values.rows[Len(mp) + k].cells =
                          FileRow("s", sp[k][1], sp[k][2], PointDim)

\* The handle specification is malformed, or its moving points and transforms
\* do not pair 1:1.
Malformed ==
    \/ ~spec.hasHandles
    \/ Len(spec.moving.positions) # Len(spec.moving.transform)
    \/ Sum(spec.moving.positions) # Sum(spec.moving.transform)

\* C4 (as claimed): with a malformed handle specification setup_data raises:
\* the run never gets past setup and no training step starts.
C4_MalformedSpecRaises ==
    Malformed => /\ pc \in {"Start", "Raised"}
                 /\ trace = <<>>
                 /\ step = 0

\* C5: once setup_model has run, the shape network's parameters are the
\* pretrained ones and track no gradient, in every phase of every step and
\* after a step raised; no loss is differentiable in them; the loss a step
\* computes is differentiable in the deformation network's parameters only,
\* and only those are updated.
C5_ShapeNetworkReadOnly ==
    (SetupDone /\ pc # "Data") =>
        /\ source.params = "pretrained"
        /\ ~source.requires_grad
        /\ loc.verts_graph = {}
        /\ "source" \notin loc.rtf_out.graph
        /\ "source" \notin loc.loss_dict.graph
        /\ pc = "LossCompute" => loc.loss_dict.graph = {"model"}
        /\ pc \in {"Idle", "Finished"} => model.params = step

C5_Witness ==
    /\ pc = "LossCompute"
    /\ step >= 1
    /\ model.params >= 1
    /\ Len(loc.level_set_verts) >= 1
    /\ config.num_projections >= 1

IsPrefix(a, b) == Len(a) <= Len(b) /\ a = SubSeq(b, 1, Len(a))

\* C6: the phases of a training step are entered in the order handle
\* projection, surface sampling, patch building, forward, loss computation,
\* none skipped and none repeated; a step that computes its loss has entered
\* all five, each once, and computes it from the handles, samples, patches and
\* network outputs made in that same step; the run is idle only between steps,
\* with no local of the last step left, after as many loss computations as
\* steps. (A step that raises stops in the phase that raised.)
PhaseInvariant ==
    /\ IsPrefix(trace, PhaseOrder)
    /\ InStep => trace # <<>> /\ trace[Len(trace)] = pc
    /\ pc = "LossCompute" =>
          /\ trace = PhaseOrder
          /\ loc.loss_dict.made = step
          /\ loc.loss_dict.from = [h |-> step, s |-> step, p |-> step, f |-> step]
          /\ \A k \in 1..NRows(loc.samples) :
                loc.samples.rows[k].cells[1][1] \in {"z", "u"} =>
                    loc.samples.rows[k].cells[1][2] = step
    /\ pc \in {"Idle", "Finished"} =>
          /\ trace = <<>>
          /\ loc = NoLocals
          /\ model.params = step
    /\ step <= config.num_steps

\* The moves of a training step: into the next phase, from loss computation
\* back to idle with one more step done, or out by an exception.
PhaseMove ==
    /\ pc = "Idle" /\ pc' # pc => pc' \in {"SamplingHandles", "Raised", "Finished"}
    /\ pc = "SamplingHandles" /\ pc' # pc => pc' \in {"SamplingSurface", "Raised"}
    /\ pc = "SamplingSurface" /\ pc' # pc => pc' \in {"BuildingPatches", "Raised"}
    /\ pc = "BuildingPatches" /\ pc' # pc => pc' \in {"Forward", "Raised"}
    /\ pc = "Forward" /\ pc' # pc => pc' \in {"LossCompute", "Raised"}
    /\ pc = "LossCompute" /\ pc' # pc => pc' = "Idle" /\ step' = step + 1
    /\ pc \in {"Raised", "Finished"} => pc' = pc
    /\ InStep /\ pc' # "Raised" => trace' # trace

C6_PhaseOrder == []PhaseInvariant /\ [][PhaseMove]_vars

C6_Witness ==
    /\ pc = "LossCompute"
    /\ step = 1
    /\ trace = PhaseOrder
    /\ NRows(loc.samples) > NRows(loc.handles)

\* The handle tables setup_data builds from the specification.
LoadedTables ==
    <<IF spec.moving.present /\ Len(spec.moving.positions) > 0
      THEN LoadMoving(spec.moving) ELSE EmptyTensor(EmptyMovingWidth),
      LoadStatic(spec.static)>>

\* C7: in every phase of every step, after a step returned and after a step
\* raised, handles_moving and handles_static are the tables the step found,
\* which are the tables setup_data loaded; a step that raised entered no phase
\* twice, and nothing of train_step runs after it.
C7_HandlesUntouched ==
    (InStep \/ (pc = "Raised" /\ trace # <<>>) \/ (pc \in {"Idle", "Finished"} /\ step >= 1)) =>
        /\ <<handles_moving, handles_static>> = atStepStart
        /\ <<handles_moving, handles_static>> = LoadedTables
        /\ pc = "Raised" =>
              /\ IsPrefix(trace, PhaseOrder)
              /\ ~ENABLED (SamplingHandles \/ SamplingSurface \/ BuildingPatches
                           \/ Forward \/ LossCompute \/ Backward)

C7_Witness ==
    /\ pc = "Raised"
    /\ err = "InsufficientSamples"
    /\ NRows(handles_moving) >= 1
    /\ NRows(handles_static) >= 1
    /\ config.num_projections >= 1
    /\ step = 1

PatchesBuilt == pc \in {"BuildingPatches", "Forward", "LossCompute"}

\* C8: once the patches are built, every vertex of patch i has been projected
\* num_projections times, every time toward the level set at the distance the
\* shape network measures at sample i, the sample the patch was lifted around;
\* with num_projections = 0 the vertices are the tangent-plane points.
C8_PatchLevels ==
    PatchesBuilt =>
        /\ Len(loc.level_set_verts) = NRows(loc.samples)
        /\ \A i \in 1..Len(loc.level_set_verts) :
              /\ Len(loc.level_set_verts[i]) = PatchVerts
              /\ \A j \in 1..PatchVerts :
                    /\ loc.level_set_verts[i][j].origin = i
                    /\ loc.level_set_verts[i][j].vert = j
                    /\ loc.level_set_verts[i][j].targets =
                          [r \in 1..config.num_projections |->
                              Dist(source.params, loc.samples.rows[i])]
        /\ config.num_projections = 0 => loc.level_set_verts = TangentPts(loc.samples)

C8_Witness ==
    /\ pc = "BuildingPatches"
    /\ config.num_projections = 2
    /\ \E i, k \in 1..NRows(loc.samples) :
          /\ Dist(source.params, loc.samples.rows[i]) # 0
          /\ Dist(source.params, loc.samples.rows[k]) # Dist(source.params, loc.samples.rows[i])
          /\ Len(loc.level_set_verts[i][1].targets) = 2

\* C9: a projection round taken at a point where the gradient of the distance
\* is zero gives no NaN and leaves the point where it was, whatever the
\* distance there and whatever the target level.
C9_ZeroGradientFailsSoft ==
    (proj.pc \in {"loop", "returned"} /\ proj.zeroStep) =>
        /\ ~proj.query.nan
        /\ proj.query = proj.prev

C9_Witness ==
    /\ proj.pc = "loop"
    /\ proj.zeroStep
    /\ ZeroGradient(proj.field, proj.prev)
    /\ SdfFunctional(proj.field, proj.prev).v - proj.level # 0

\* C10 (as claimed): a projection that met a zero-length gradient does not
\* return an ordinary finite point.
C10_ZeroGradientPropagates ==
    (proj.pc = "returned" /\ proj.zero.met) => proj.query.nan

\* C10 (amended): a projection that met a zero-length gradient returns
\* normally, and what it returns is finite: the very point at which the
\* gradient vanished, unmoved by that round and by every later one.
C10_ZeroGradientClampedSilently ==
    (proj.pc = "returned" /\ proj.zero.met) =>
        /\ ~proj.query.nan
        /\ proj.query = proj.zero.at
        /\ proj.i = proj.n_its

C10_Witness ==
    /\ proj.pc = "returned"
    /\ proj.zero.met
    /\ proj.n_its = 2
    /\ SdfFunctional(proj.field, proj.zero.at).v - proj.level # 0

\* C11 (as claimed): once setup_data has returned, the static handle table has
\* one row per point of the static point-set files and the moving handle
\* table one row per point of the moving point-set files, in file order, each
\* row holding that point's 3 coordinates (the moving rows first), whatever the
\* sizes of the files.
C11_HandleRowCounts ==
    pc = "Data" =>
        LET mp == PointsOf(spec.moving.positions)
            sp == PointsOf(spec.static.positions)
        IN /\ NRows(handles_static) = Len(sp)
           /\ handles_static.w = PointDim
           /\ \A k \in 1..Len(sp) :
                 handles_static.rows[k].cells = FileRow("s", sp[k][1], sp[k][2], PointDim)
           /\ NRows(handles_moving) = Len(mp)
           /\ \A k \in 1..Len(mp) :
                 SubSeq(handles_moving.rows[k].cells, 1, PointDim) =
                     FileRow("m", mp[k][1], mp[k][2], PointDim)

\* C12 (as claimed): after any sequence of viewer events the 'Live Picks'
\* cloud is registered exactly when the live pick list is non-empty, the
\* 'Frozen Picks' cloud exactly when the frozen pick list is non-empty, and no
\* handler has looked up or removed a point cloud that is not registered.
C12_CloudsMatchPicks ==
    /\ ui.clouds.live <=> ui.live_picks # <<>>
    /\ ui.clouds.frozen <=> ui.frozen_picks # <<>>
    /\ ui.err \notin {"ps.get_point_cloud", "ps.remove_point_cloud"}

\* C13 (as claimed): the mesh on display is the level set last rendered, and
\* every live pick added by a ctrl-click was projected onto that level.
C13_PicksOnDisplayedLevel ==
    /\ ui.mesh = ui.last_level_set
    /\ \A k \in 1..Len(ui.live_picks) :
          ui.live_picks[k].by = "click" => ui.live_picks[k].level = ui.last_level_set

\* What the claim says 'Freeze transforms' does.
FreezeEffect ==
    /\ Len(ui'.frozen_picks) = Len(ui.frozen_picks) + Len(ui.live_picks)
    /\ SubSeq(ui'.frozen_picks, 1, Len(ui.frozen_picks)) = ui.frozen_picks
    /\ ui'.inputs = ZeroInputs
    /\ ui'.live_xf = Identity
    /\ ui'.live_picks = IF ui.duplicate THEN ui.live_picks ELSE <<>>

\* C14 (as claimed): 'Freeze transforms' pressed while the live cloud is
\* registered appends one frozen pick per live pick and leaves the earlier
\* frozen picks as they were, resets the six transform inputs and the live
\* cloud's transform to the identity, and empties the live pick list exactly
\* when 'Keep live set' is off.
C14_FreezeFrame == [][(FreezeTransforms /\ ui.clouds.live) => FreezeEffect]_vars

====
